---- MODULE Spec2Model ----
(***************************************************************************)
(* Dataset loaders of seacrowd/sea_datasets: cc3m_35l, vicon,              *)
(* uit_vicov19qa and indonesian_madurese_bible_translation.                *)
(*                                                                         *)
(* A behaviour is the life of one builder: _info (run when the builder is  *)
(* constructed), _split_generators, then the pulls of _generate_examples.  *)
(* The input files, the configured schema and the data directory are       *)
(* chosen in Init.                                                         *)
(***************************************************************************)
EXTENDS Integers, Sequences, FiniteSets, TLC

\* Longest translation stream (lines of the jsonl file) of cc3m_35l.
MaxLines == 3

\* Most rows of the data frame handed to CC3M35L.fill_img_path.
MaxDfRows == 3

\* Most data rows of an input file of vicon and uit_vicov19qa, and most
\* lines of a text file of indonesian_madurese_bible_translation.
MaxRows == 2

VARIABLES
    loader,     \* which builder class this behaviour runs
    schema,     \* self.config.schema
    data_dir,   \* self.config.data_dir (cc3m_35l only)
    phase,      \* "new", "info_ok", "split_ok", "failed"
    error,      \* the exception that ended the builder or a pass, "none" if none
    opened,     \* stream handles opened by CC3M35L._split_generators
    table_read, \* side tables read by CC3M35L._split_generators
    stream,     \* the lines of the split's translation file
    cursor,     \* split_handler's position, in lines
    pc,         \* per pass: "idle", "run", "suspended", "done", "error"
    idx,        \* per pass: local idx
    c_data,     \* per pass: local c_data
    local,      \* per pass: the locals row and img_url live across the yield
    yielded,    \* per pass: the (key, example) pairs yielded so far
    ret,        \* per pass: the value returned at exhaustion, <<>> before
    start,      \* per pass, history: the cursor when the pass was started
    held,       \* per pass, history: stream position of the record in c_data, 0 if none
    joined,     \* per pass, history: stream positions whose c_data was built
    emitted,    \* per pass, history: stream position of each yielded pair
    file,       \* vicon, uit_vicov19qa: the data rows of the input file;
                \* indonesian_madurese: the files of the corpus directory
    all_data,   \* indonesian_madurese: the rows written to train.jsonl
    gen,        \* the other loaders' _generate_examples: "idle", "run", "done", "error"
    k,          \* rows that _generate_examples has iterated over
    out,        \* the (key, example) pairs yielded so far
    fetched,    \* archives that CC3M35L._split_generators has downloaded
    fill        \* a call of CC3M35L.fill_img_path: its arguments and locals

vars == <<loader, schema, data_dir, phase, error, opened, table_read, fetched, stream,
          cursor, pc, idx, c_data, local, yielded, ret, start, held, joined, emitted,
          file, all_data, gen, k, out, fetched, fill>>

\* the state of the simple loaders (all but cc3m_35l)
rowvars == <<file, all_data, gen, k, out>>

genvars == <<cursor, pc, idx, c_data, local, yielded, ret, start, held, joined, emitted>>

-----------------------------------------------------------------------------
(* Python values *)

None == [none |-> TRUE]

Max(S) == CHOOSE m \in S : \A x \in S : x <= m

Digit(d) ==
    CASE d = 0 -> "0" [] d = 1 -> "1" [] d = 2 -> "2" [] d = 3 -> "3"
      [] d = 4 -> "4" [] d = 5 -> "5" [] d = 6 -> "6" [] d = 7 -> "7"
      [] d = 8 -> "8" [] d = 9 -> "9"

RECURSIVE StrNat(_)
StrNat(n) == IF n < 10 THEN Digit(n) ELSE StrNat(n \div 10) \o Digit(n % 10)

\* str(n) of a Python int
Str(n) == IF n < 0 THEN "-" \o StrNat(-n) ELSE StrNat(n)

-----------------------------------------------------------------------------
(* cc3m_35l *)

Passes == {1, 2}

LANGUAGE_MAP == [fil |-> "fil", ind |-> "id", tha |-> "th", vie |-> "vi"]

\* self.config.subset_id.split("_")[2] of the configuration "cc3m_35l_vie_*"
SubsetLang == "vie"

\* the side table after gcc_df.index = gcc_df.index + 1: rows 1..n
GccTable ==
    << [caption |-> "cat on mat", img_url |-> "http://x/1"],
       [caption |-> "dog on rug", img_url |-> "http://x/2"] >>

\* rec_num values of the stream; the last one is not in the side table
RecNums == 1..(Len(GccTable) + 1)

BlankLine ==
    [kind |-> "blank", trg_lang |-> "", rec_num |-> 0, caption_tokenized |-> "",
     translation_tokenized |-> "", backtranslation_tokenized |-> ""]

JsonLines ==
    { [kind |-> "json", trg_lang |-> l, rec_num |-> r,
       caption_tokenized |-> IF r \in DOMAIN GccTable THEN GccTable[r].caption ELSE "no row",
       translation_tokenized |-> t, backtranslation_tokenized |-> "bt"] :
        l \in {"vi", "th"}, r \in RecNums, t \in {"t1", "t2"} }

\* a line that json.loads rejects
BadLine ==
    [kind |-> "bad", trg_lang |-> "", rec_num |-> 0, caption_tokenized |-> "",
     translation_tokenized |-> "", backtranslation_tokenized |-> ""]

Lines == {BlankLine, BadLine} \cup JsonLines

Streams == UNION { [1..n -> Lines] : n \in 0..MaxLines }

\* split_handler.readline().strip(): "" at end of file and for a blank line
ReadLine(s, c) == IF c < Len(s) THEN s[c + 1] ELSE BlankLine

\* the position after readline(): it moves past the line read, if there is one
AfterRead(s, c) == IF c < Len(s) THEN c + 1 ELSE c

\* a filter that lets every language through
AcceptedAny(row, lang) == TRUE

\* not row['trg_lang'] != lang
Accepted(row, lang) == row.trg_lang = lang

\* gcc_df.loc[index, 'img_url'] raises KeyError for an index not in the table
HasRow(df, index) == index \in DOMAIN df

Example(sch, i, img_url, row) ==
    IF sch = "source"
    THEN [id |-> Str(i),
          image_paths |-> img_url,
          src_lang |-> "en",
          caption_tokenized |-> row.caption_tokenized,
          trg_lang |-> SubsetLang,
          translation_tokenized |-> row.translation_tokenized,
          backtranslation_tokenized |-> row.backtranslation_tokenized]
    ELSE [id |-> Str(i),
          image_paths |-> <<img_url>>,
          texts |-> row.translation_tokenized,
          metadata |-> [context |-> "None", labels |-> "None"]]

CC3MSchemas == {"source", "seacrowd_imtext"}

\* the language requested of _generate_examples: current_lang
Lang == LANGUAGE_MAP[SubsetLang]

\* CC3M35L._info: features is bound only under the two schemas
CC3MInfo(sch) == IF sch \in CC3MSchemas THEN "none" ELSE "UnboundLocalError"

\* dl_manager.download_and_extract of the two archives, before data_dir is looked at
Downloads == {"trans_dev", "trans_train"}

\* no call of fill_img_path
NoFill == [pc |-> "idle"]

\* a _split_generators that does not look at data_dir
SplitErrorNever(dir) == "none"

\* CC3M35L._split_generators: the check of data_dir comes before any open()
CC3MSplitError(dir) == IF dir = "None" THEN "ValueError" ELSE "none"

\* an identifier that advances by two
NextIdxTwice(i) == i + 2

\* idx += 1
NextIdx(i) == i + 1

\* a pass that never flushes the pending record
NeverYield(cd) == FALSE

\* if c_data is not None: yield idx, c_data
ShouldYield(cd) == cd # None

\* an exhaustion that leaves the cursor where it is
SeekStay(c) == c

\* split_handler.seek(0)
Seek(c) == 0

\* a return that drops the pending record
ReturnIdxOnly(i, cd) == <<i, None>>

\* return idx, c_data
ReturnValue(i, cd) == <<i, cd>>

InitCC3M ==
    /\ loader = "cc3m"
    /\ schema \in CC3MSchemas \cup {"other"}
    /\ data_dir \in {"None", "data"}
    /\ stream \in Streams
    /\ phase = "new"
    /\ error = "none"
    /\ opened = {}
    /\ table_read = {}
    /\ fetched = {}
    /\ fill = NoFill
    /\ cursor = 0
    /\ pc = [p \in Passes |-> "idle"]
    /\ idx = [p \in Passes |-> -1]
    /\ c_data = [p \in Passes |-> None]
    /\ local = [p \in Passes |-> None]
    /\ yielded = [p \in Passes |-> <<>>]
    /\ ret = [p \in Passes |-> <<>>]
    /\ start = [p \in Passes |-> 0]
    /\ held = [p \in Passes |-> 0]
    /\ joined = [p \in Passes |-> {}]
    /\ emitted = [p \in Passes |-> <<>>]
    /\ file = <<>>
    /\ all_data = <<>>
    /\ gen = "idle"
    /\ k = 0
    /\ out = <<>>

\* the builder is constructed: _info runs
CC3MInfoStep ==
    /\ UNCHANGED <<rowvars, fill>>
    /\ loader = "cc3m"
    /\ phase = "new"
    /\ error' = CC3MInfo(schema)
    /\ phase' = IF error' = "none" THEN "info_ok" ELSE "failed"
    /\ UNCHANGED <<loader, schema, data_dir, opened, table_read, fetched, stream>>
    /\ UNCHANGED genvars

CC3MSplitGenerators ==
    /\ UNCHANGED <<rowvars, fill>>
    /\ loader = "cc3m"
    /\ phase = "info_ok"
    /\ fetched' = Downloads
    /\ error' = CC3MSplitError(data_dir)
    /\ IF error' = "none"
       THEN /\ phase' = "split_ok"
            /\ opened' = {"dev", "trn"}
            /\ table_read' = {"dev", "trn"}
       ELSE /\ phase' = "failed"
            /\ UNCHANGED <<opened, table_read>>
    /\ UNCHANGED <<loader, schema, data_dir, stream>>
    /\ UNCHANGED genvars

\* _generate_examples is called: a pass exists, its body has not run yet.
\* A pass is started once the pass before it has ended.
StartPass(p) ==
    /\ UNCHANGED <<rowvars, fill>>
    /\ loader = "cc3m"
    /\ phase = "split_ok"
    /\ pc[p] = "idle"
    /\ \A q \in Passes : q < p => pc[q] \in {"done", "error"}
    /\ pc' = [pc EXCEPT ![p] = "run"]
    /\ idx' = [idx EXCEPT ![p] = -1]
    /\ c_data' = [c_data EXCEPT ![p] = None]
    /\ start' = [start EXCEPT ![p] = cursor]
    /\ UNCHANGED <<loader, schema, data_dir, phase, error, opened, table_read, fetched, stream,
                   cursor, local, yielded, ret, held, joined, emitted>>

\* a pass that reads on past an empty line and ends only at the end of the file
GenReturnSkipBlank(p) ==
    /\ UNCHANGED <<rowvars, fill>>
    /\ pc[p] = "run"
    /\ ReadLine(stream, cursor).kind = "blank"
    /\ IF cursor < Len(stream)
       THEN /\ cursor' = AfterRead(stream, cursor)
            /\ UNCHANGED <<ret, pc>>
       ELSE /\ cursor' = Seek(AfterRead(stream, cursor))
            /\ ret' = [ret EXCEPT ![p] = ReturnValue(idx[p], c_data[p])]
            /\ pc' = [pc EXCEPT ![p] = "done"]
    /\ UNCHANGED <<loader, schema, data_dir, phase, error, opened, table_read, fetched, stream,
                   idx, c_data, local, yielded, start, held, joined, emitted>>

\* the line is empty after strip(): seek(0) and return
GenReturn(p) ==
    /\ UNCHANGED <<rowvars, fill>>
    /\ pc[p] = "run"
    /\ ReadLine(stream, cursor).kind = "blank"
    /\ cursor' = Seek(AfterRead(stream, cursor))
    /\ ret' = [ret EXCEPT ![p] = ReturnValue(idx[p], c_data[p])]
    /\ pc' = [pc EXCEPT ![p] = "done"]
    /\ UNCHANGED <<loader, schema, data_dir, phase, error, opened, table_read, fetched, stream,
                   idx, c_data, local, yielded, start, held, joined, emitted>>

\* json.loads(line) of a line that is not JSON
GenJsonError(p) ==
    /\ UNCHANGED <<rowvars, fill>>
    /\ pc[p] = "run"
    /\ ReadLine(stream, cursor).kind = "bad"
    /\ cursor' = AfterRead(stream, cursor)
    /\ pc' = [pc EXCEPT ![p] = "error"]
    /\ error' = "JSONDecodeError"
    /\ UNCHANGED <<loader, schema, data_dir, phase, opened, table_read, fetched, stream,
                   idx, c_data, local, yielded, ret, start, held, joined, emitted>>

\* row['trg_lang'] != lang: continue
GenSkip(p) ==
    /\ UNCHANGED <<rowvars, fill>>
    /\ pc[p] = "run"
    /\ ReadLine(stream, cursor).kind = "json"
    /\ ~Accepted(ReadLine(stream, cursor), Lang)
    /\ cursor' = AfterRead(stream, cursor)
    /\ UNCHANGED <<loader, schema, data_dir, phase, error, opened, table_read, fetched, stream,
                   pc, idx, c_data, local, yielded, ret, start, held, joined, emitted>>

\* a pass that flushes the pending record before it looks the rec_num up
GenKeyErrorFlush(p) ==
    /\ UNCHANGED <<rowvars, fill>>
    /\ pc[p] = "run"
    /\ ReadLine(stream, cursor).kind = "json"
    /\ Accepted(ReadLine(stream, cursor), Lang)
    /\ ~HasRow(GccTable, ReadLine(stream, cursor).rec_num)
    /\ cursor' = AfterRead(stream, cursor)
    /\ pc' = [pc EXCEPT ![p] = "error"]
    /\ error' = "KeyError"
    /\ yielded' = [yielded EXCEPT ![p] =
                      IF ShouldYield(c_data[p]) THEN Append(@, <<idx[p], c_data[p]>>) ELSE @]
    /\ emitted' = [emitted EXCEPT ![p] =
                      IF ShouldYield(c_data[p]) THEN Append(@, held[p]) ELSE @]
    /\ UNCHANGED <<loader, schema, data_dir, phase, opened, table_read, fetched, stream,
                   idx, c_data, local, ret, start, held, joined>>

\* gcc_df.loc[index, 'img_url'] of a rec_num that is not in the side table
GenKeyError(p) ==
    /\ UNCHANGED <<rowvars, fill>>
    /\ pc[p] = "run"
    /\ ReadLine(stream, cursor).kind = "json"
    /\ Accepted(ReadLine(stream, cursor), Lang)
    /\ ~HasRow(GccTable, ReadLine(stream, cursor).rec_num)
    /\ cursor' = AfterRead(stream, cursor)
    /\ pc' = [pc EXCEPT ![p] = "error"]
    /\ error' = "KeyError"
    /\ UNCHANGED <<loader, schema, data_dir, phase, opened, table_read, fetched, stream,
                   idx, c_data, local, yielded, ret, start, held, joined, emitted>>

\* idx += 1 and the schema branch that builds c_data, or raises ValueError
Build(p, row, img_url, pos) ==
    IF schema \in CC3MSchemas
    THEN /\ idx' = [idx EXCEPT ![p] = NextIdx(idx[p])]
         /\ c_data' = [c_data EXCEPT ![p] = Example(schema, NextIdx(idx[p]), img_url, row)]
         /\ held' = [held EXCEPT ![p] = pos]
         /\ joined' = [joined EXCEPT ![p] = @ \cup {pos}]
         /\ pc' = [pc EXCEPT ![p] = "run"]
         /\ error' = error
    ELSE /\ idx' = [idx EXCEPT ![p] = NextIdx(idx[p])]
         /\ pc' = [pc EXCEPT ![p] = "error"]
         /\ error' = "ValueError"
         /\ UNCHANGED <<c_data, held, joined>>

\* an accepted record with its row in the side table, nothing pending:
\* no yield, the record becomes c_data
GenFirst(p) ==
    /\ UNCHANGED <<rowvars, fill>>
    /\ pc[p] = "run"
    /\ ReadLine(stream, cursor).kind = "json"
    /\ Accepted(ReadLine(stream, cursor), Lang)
    /\ HasRow(GccTable, ReadLine(stream, cursor).rec_num)
    /\ ~ShouldYield(c_data[p])
    /\ cursor' = AfterRead(stream, cursor)
    /\ Build(p, ReadLine(stream, cursor),
             GccTable[ReadLine(stream, cursor).rec_num].img_url, cursor + 1)
    /\ UNCHANGED <<loader, schema, data_dir, phase, opened, table_read, fetched, stream,
                   local, yielded, ret, start, emitted>>

\* an accepted record with its row in the side table, a record pending:
\* yield idx, c_data; the pass is suspended at the yield
GenYield(p) ==
    /\ UNCHANGED <<rowvars, fill>>
    /\ pc[p] = "run"
    /\ ReadLine(stream, cursor).kind = "json"
    /\ Accepted(ReadLine(stream, cursor), Lang)
    /\ HasRow(GccTable, ReadLine(stream, cursor).rec_num)
    /\ ShouldYield(c_data[p])
    /\ cursor' = AfterRead(stream, cursor)
    /\ yielded' = [yielded EXCEPT ![p] = Append(@, <<idx[p], c_data[p]>>)]
    /\ emitted' = [emitted EXCEPT ![p] = Append(@, held[p])]
    /\ local' = [local EXCEPT ![p] =
                    [row |-> ReadLine(stream, cursor),
                     img_url |-> GccTable[ReadLine(stream, cursor).rec_num].img_url,
                     pos |-> cursor + 1]]
    /\ pc' = [pc EXCEPT ![p] = "suspended"]
    /\ UNCHANGED <<loader, schema, data_dir, phase, error, opened, table_read, fetched, stream,
                   idx, c_data, ret, start, held, joined>>

\* the consumer pulls again: the pass goes on after the yield
GenResume(p) ==
    /\ UNCHANGED <<rowvars, fill>>
    /\ pc[p] = "suspended"
    /\ Build(p, local[p].row, local[p].img_url, local[p].pos)
    /\ local' = [local EXCEPT ![p] = None]
    /\ UNCHANGED <<loader, schema, data_dir, phase, opened, table_read, fetched, stream,
                   cursor, yielded, ret, start, emitted>>

NextCC3M ==
    \/ CC3MInfoStep
    \/ CC3MSplitGenerators
    \/ \E p \in Passes :
          \/ StartPass(p)
          \/ GenReturn(p)
          \/ GenJsonError(p)
          \/ GenSkip(p)
          \/ GenKeyError(p)
          \/ GenFirst(p)
          \/ GenYield(p)
          \/ GenResume(p)

-----------------------------------------------------------------------------
(* cc3m_35l: passes over one handle whose pulls interleave.  A pull runs     *)
(* from the consumer's next() to the next yield, return or raise without    *)
(* interruption; between pulls another pass may be created or pulled, and a *)
(* pass that is no longer pulled is abandoned.                              *)

\* _generate_examples is called, whatever the other passes are doing
StartPassAny(p) ==
    /\ UNCHANGED <<rowvars, fill>>
    /\ loader = "cc3m"
    /\ phase = "split_ok"
    /\ pc[p] = "idle"
    /\ pc' = [pc EXCEPT ![p] = "created"]
    /\ UNCHANGED <<loader, schema, data_dir, phase, error, opened, table_read, fetched, stream,
                   cursor, idx, c_data, local, yielded, ret, start, held, joined, emitted>>

\* no other pass is inside a pull
NoPullBut(p) == \A q \in Passes : q # p => pc[q] # "run"

\* the first next(): idx, c_data = -1, None and the loop is entered
FirstPull(p) ==
    /\ UNCHANGED <<rowvars, fill>>
    /\ pc[p] = "created"
    /\ NoPullBut(p)
    /\ pc' = [pc EXCEPT ![p] = "run"]
    /\ idx' = [idx EXCEPT ![p] = -1]
    /\ c_data' = [c_data EXCEPT ![p] = None]
    /\ start' = [start EXCEPT ![p] = cursor]
    /\ UNCHANGED <<loader, schema, data_dir, phase, error, opened, table_read, fetched, stream,
                   cursor, local, yielded, ret, held, joined, emitted>>

\* a later next() of a pass suspended at the yield
NextPull(p) == NoPullBut(p) /\ GenResume(p)

NextConc ==
    \/ CC3MInfoStep
    \/ CC3MSplitGenerators
    \/ \E p \in Passes :
          \/ StartPassAny(p)
          \/ FirstPull(p)
          \/ GenReturn(p)
          \/ GenJsonError(p)
          \/ GenSkip(p)
          \/ GenKeyError(p)
          \/ GenFirst(p)
          \/ GenYield(p)
          \/ NextPull(p)

SpecConc == InitCC3M /\ [][NextConc]_vars

-----------------------------------------------------------------------------
(* cc3m_35l: fill_img_path(df, line) *)

\* everything but fill
nofill == <<loader, schema, data_dir, phase, error, opened, table_read, stream,
            cursor, pc, idx, c_data, local, yielded, ret, start, held, joined, emitted,
            file, all_data, gen, k, out, fetched>>

\* the data frames: rows 1..n of caption and img_url
Frames ==
    UNION { [1..n -> { [caption |-> c, img_url |-> "http://x/1"] :
                          c \in {"cat on mat", "dog on rug"} }] : n \in 0..MaxDfRows }

\* what datasets.DownloadManager().download(row["img_url"]) may do
Outcomes == {"none", "ConnectionError", "KeyboardInterrupt"}

\* the labels of the rows of df.query('caption==@line["caption_tokenized"]'), in order
RECURSIVE Query(_, _, _)
Query(df, caption, i) ==
    IF i > Len(df) THEN <<>>
    ELSE (IF df[i].caption = caption THEN <<i>> ELSE <<>>) \o Query(df, caption, i + 1)

\* a handler that lets KeyboardInterrupt and SystemExit pass: except Exception
CaughtException(exc) == exc # "KeyboardInterrupt"

\* the bare except: of the download catches whatever is raised
Caught(exc) == TRUE

\* exceptions.append(idx)
OnExcept(exceptions, i) == Append(exceptions, i)

InitFill ==
    /\ loader = "cc3m"
    /\ schema = "source"
    /\ data_dir = "data"
    /\ phase = "info_ok"
    /\ error = "none"
    /\ opened = {}
    /\ table_read = {}
    /\ fetched = {}
    /\ stream = <<>>
    /\ cursor = 0
    /\ pc = [p \in Passes |-> "idle"]
    /\ idx = [p \in Passes |-> -1]
    /\ c_data = [p \in Passes |-> None]
    /\ local = [p \in Passes |-> None]
    /\ yielded = [p \in Passes |-> <<>>]
    /\ ret = [p \in Passes |-> <<>>]
    /\ start = [p \in Passes |-> 0]
    /\ held = [p \in Passes |-> 0]
    /\ joined = [p \in Passes |-> {}]
    /\ emitted = [p \in Passes |-> <<>>]
    /\ file = <<>>
    /\ all_data = <<>>
    /\ gen = "idle"
    /\ k = 0
    /\ out = <<>>
    /\ \E df \in Frames, c \in {"cat on mat", "dog on rug"} :
          fill = [pc |-> "called",
                  df |-> df,
                  line |-> [caption_tokenized |-> c,
                            translation_tokenized |-> "t1",
                            backtranslation_tokenized |-> "bt"],
                  selected_row |-> <<>>,
                  n |-> 0,
                  exceptions |-> <<>>,
                  attempts |-> <<>>]

\* exceptions = [] and selected_row = df.query(...)
FillQuery ==
    /\ fill.pc = "called"
    /\ fill' = [fill EXCEPT !.pc = "loop",
                            !.selected_row = Query(fill.df, fill.line.caption_tokenized, 1)]
    /\ UNCHANGED nofill

\* one turn of for idx, row in selected_row.iterrows(); attempts is the
\* history of the downloads tried
FillRow ==
    /\ fill.pc = "loop"
    /\ fill.n < Len(fill.selected_row)
    /\ \E exc \in Outcomes :
          LET i == fill.selected_row[fill.n + 1] IN
          fill' = [fill EXCEPT
                     !.attempts = Append(@, [idx |-> i, exc |-> exc]),
                     !.n = @ + 1,
                     !.exceptions = IF exc # "none" /\ Caught(exc)
                                    THEN OnExcept(@, i) ELSE @,
                     !.pc = IF exc # "none" /\ ~Caught(exc) THEN "raised" ELSE @]
    /\ UNCHANGED nofill

\* return selected_row, exceptions
FillReturn ==
    /\ fill.pc = "loop"
    /\ fill.n = Len(fill.selected_row)
    /\ fill' = [fill EXCEPT !.pc = "returned"]
    /\ UNCHANGED nofill

NextFill == FillQuery \/ FillRow \/ FillReturn

SpecFill == InitFill /\ [][NextFill]_vars

-----------------------------------------------------------------------------
(* The loaders that read a whole file and yield one example per row *)

\* the cc3m_35l state of a builder of another class
NoCC3M ==
    /\ data_dir = "None"
    /\ opened = {}
    /\ table_read = {}
    /\ fetched = {}
    /\ fill = NoFill
    /\ stream = <<>>
    /\ cursor = 0
    /\ pc = [p \in Passes |-> "idle"]
    /\ idx = [p \in Passes |-> -1]
    /\ c_data = [p \in Passes |-> None]
    /\ local = [p \in Passes |-> None]
    /\ yielded = [p \in Passes |-> <<>>]
    /\ ret = [p \in Passes |-> <<>>]
    /\ start = [p \in Passes |-> 0]
    /\ held = [p \in Passes |-> 0]
    /\ joined = [p \in Passes |-> {}]
    /\ emitted = [p \in Passes |-> <<>>]

cc3mvars == <<data_dir, opened, table_read, fetched, stream, fill>>

SeqsUpTo(S, n) == UNION { [1..m -> S] : m \in 0..n }

\* a dict display in which a key given twice keeps the value given first
DictLiteralFirst(items) ==
    [key \in { items[i][1] : i \in DOMAIN items } |->
        items[CHOOSE i \in DOMAIN items :
                /\ items[i][1] = key
                /\ \A j \in DOMAIN items : items[j][1] = key => i <= j][2]]

\* a dict display: a key given twice keeps the value given last
DictLiteral(items) ==
    [key \in { items[i][1] : i \in DOMAIN items } |->
        items[Max({ i \in DOMAIN items : items[i][1] = key })][2]]

-----------------------------------------------------------------------------
(* vicon *)

ViConSchemas == {"source", "seacrowd_pairs"}

\* the rows of df: the file's lines after the header Word1, Word2, Relation
ViConRows ==
    { [Word1 |-> a, Word2 |-> b, Relation |-> r] :
        a \in {"hot", "cold"}, b \in {"hot", "cold"}, r \in {"ANT", "SYN"} }

\* ViConDataset._info: features is bound only under the two schemas
ViConInfo(sch) == IF sch \in ViConSchemas THEN "none" ELSE "UnboundLocalError"

\* the example built of one row of df
ViConExample(sch, index, row) ==
    IF sch = "source"
    THEN [Word1 |-> row.Word1, Word2 |-> row.Word2, Relation |-> row.Relation]
    ELSE DictLiteral(<< <<"id", Str(index)>>,
                        <<"text_1", row.Word1>>,
                        <<"text_1", row.Word2>>,
                        <<"label", row.Relation>> >>)

InitViCon ==
    /\ loader = "vicon"
    /\ schema \in ViConSchemas \cup {"other"}
    /\ file \in SeqsUpTo(ViConRows, MaxRows)
    /\ phase = "new"
    /\ error = "none"
    /\ all_data = <<>>
    /\ gen = "idle"
    /\ k = 0
    /\ out = <<>>
    /\ NoCC3M

ViConInfoStep ==
    /\ loader = "vicon"
    /\ phase = "new"
    /\ error' = ViConInfo(schema)
    /\ phase' = IF error' = "none" THEN "info_ok" ELSE "failed"
    /\ UNCHANGED <<loader, schema, cc3mvars, genvars, rowvars>>

ViConSplitGenerators ==
    /\ loader = "vicon"
    /\ phase = "info_ok"
    /\ phase' = "split_ok"
    /\ gen' = "run"
    /\ UNCHANGED <<loader, schema, error, cc3mvars, genvars, file, all_data, k, out>>

\* one turn of for index, row in df.iterrows()
ViConYield ==
    /\ loader = "vicon"
    /\ gen = "run"
    /\ k < Len(file)
    /\ IF schema \in ViConSchemas
       THEN /\ out' = Append(out, <<k, ViConExample(schema, k, file[k + 1])>>)
            /\ k' = k + 1
            /\ UNCHANGED <<gen, error>>
       ELSE /\ gen' = "error"
            /\ error' = "UnboundLocalError"
            /\ UNCHANGED <<k, out>>
    /\ UNCHANGED <<loader, schema, phase, cc3mvars, genvars, file, all_data>>

ViConStop ==
    /\ loader = "vicon"
    /\ gen = "run"
    /\ k = Len(file)
    /\ gen' = "done"
    /\ UNCHANGED <<loader, schema, phase, error, cc3mvars, genvars, file, all_data, k, out>>

NextViCon == ViConInfoStep \/ ViConSplitGenerators \/ ViConYield \/ ViConStop

-----------------------------------------------------------------------------
(* uit_vicov19qa *)

QASchemas == {"source", "seacrowd_qa"}

\* the rows of raw_examples: the id column, the question, the answer columns
QARows ==
    { [id |-> i, question |-> "q", answers |-> <<"a1", "a2">>] : i \in {0, 1, 7} }

\* ViHealthQADataset._info
QAInfo(sch) == IF sch \in QASchemas THEN "none" ELSE "ValueError"

\* the example yielded for row eid under the two schemas
QAExample(sch, eid, exam) ==
    IF sch = "source"
    THEN [id |-> Str(exam.id), question |-> exam.question, answers |-> exam.answers]
    ELSE [id |-> Str(eid),
          question_id |-> exam.id,
          document_id |-> Str(eid),
          question |-> exam.question,
          type |-> "None",
          choices |-> <<>>,
          context |-> "None",
          answer |-> exam.answers,
          meta |-> <<>>]

InitQA ==
    /\ loader = "qa"
    /\ schema \in QASchemas \cup {"other"}
    /\ file \in SeqsUpTo(QARows, MaxRows)
    /\ phase = "new"
    /\ error = "none"
    /\ all_data = <<>>
    /\ gen = "idle"
    /\ k = 0
    /\ out = <<>>
    /\ NoCC3M

QAInfoStep ==
    /\ loader = "qa"
    /\ phase = "new"
    /\ error' = QAInfo(schema)
    /\ phase' = IF error' = "none" THEN "info_ok" ELSE "failed"
    /\ UNCHANGED <<loader, schema, cc3mvars, genvars, rowvars>>

QASplitGenerators ==
    /\ loader = "qa"
    /\ phase = "info_ok"
    /\ phase' = "split_ok"
    /\ gen' = "run"
    /\ UNCHANGED <<loader, schema, error, cc3mvars, genvars, file, all_data, k, out>>

\* one turn of for eid, exam in raw_examples.iterrows(): under a schema that
\* is neither of the two, the turn yields nothing
QAYield ==
    /\ loader = "qa"
    /\ gen = "run"
    /\ k < Len(file)
    /\ out' = IF schema \in QASchemas
              THEN Append(out, <<k, QAExample(schema, k, file[k + 1])>>)
              ELSE out
    /\ k' = k + 1
    /\ UNCHANGED <<loader, schema, phase, error, cc3mvars, genvars, file, all_data, gen>>

QAStop ==
    /\ loader = "qa"
    /\ gen = "run"
    /\ k = Len(file)
    /\ gen' = "done"
    /\ UNCHANGED <<loader, schema, phase, error, cc3mvars, genvars, file, all_data, k, out>>

NextQA == QAInfoStep \/ QASplitGenerators \/ QAYield \/ QAStop

-----------------------------------------------------------------------------
(* indonesian_madurese_bible_translation *)

IndMadSchemas == {"source", "seacrowd_t2t"}

\* a line of a text file: "\n", "src\ttgt\n", or a line without a tab
TxtLines ==
    { [kind |-> "blank", src |-> "", tgt |-> ""],
      [kind |-> "pair", src |-> " x", tgt |-> "y\n"],
      [kind |-> "notab", src |-> "x y\n", tgt |-> ""] }

\* the entries of the corpus directory: "txt" in raw_path, and the lines
DirEntries ==
    { [txt |-> TRUE, lines |-> l] : l \in SeqsUpTo(TxtLines, MaxRows) }
        \cup { [txt |-> FALSE, lines |-> <<>>] }

Listings == SeqsUpTo(DirEntries, 2)

\* str.strip() of the texts above
Strip(t) ==
    CASE t = " x" -> "x"
      [] t = "y\n" -> "y"
      [] t = "x y\n" -> "x y"
      [] OTHER -> t

\* an _info that binds features under every schema
IndMadInfoLenient(sch) == "none"

\* IndonesianMadureseBibleTranslationDataset._info
IndMadInfo(sch) == IF sch \in IndMadSchemas THEN "none" ELSE "UnboundLocalError"

\* all_path, and the lines of its files in reading order
RECURSIVE AllLines(_)
AllLines(listing) ==
    IF listing = <<>> THEN <<>>
    ELSE (IF Head(listing).txt THEN Head(listing).lines ELSE <<>>)
            \o AllLines(Tail(listing))

\* id += 1: once per line, appended or not
NextLineId(id) == id + 1

\* the loop over the lines: all_data, given the lines left and the id counter
RECURSIVE Collect(_, _)
Collect(lines, id) ==
    IF lines = <<>> THEN <<>>
    ELSE (IF Head(lines).kind # "blank"
          THEN << [src |-> Head(lines).src, tgt |-> Head(lines).tgt, id |-> id] >>
          ELSE <<>>)
            \o Collect(Tail(lines), NextLineId(id))

\* line.split("\t")[1] of a line without a tab
HasIndexError(lines) == \E i \in DOMAIN lines : lines[i].kind = "notab"

IndMadExample(sch, each_data) ==
    IF sch = "source"
    THEN [id |-> each_data.id, src |-> each_data.src, tgt |-> each_data.tgt]
    ELSE [id |-> each_data.id,
          text_1 |-> Strip(each_data.src),
          text_2 |-> Strip(each_data.tgt),
          text_1_name |-> "ind",
          text_2_name |-> "mad"]

InitIndMad ==
    /\ loader = "indmad"
    /\ schema \in IndMadSchemas \cup {"other"}
    /\ file \in Listings
    /\ phase = "new"
    /\ error = "none"
    /\ all_data = <<>>
    /\ gen = "idle"
    /\ k = 0
    /\ out = <<>>
    /\ NoCC3M

IndMadInfoStep ==
    /\ loader = "indmad"
    /\ phase = "new"
    /\ error' = IndMadInfo(schema)
    /\ phase' = IF error' = "none" THEN "info_ok" ELSE "failed"
    /\ UNCHANGED <<loader, schema, cc3mvars, genvars, rowvars>>

\* _split_generators reads every text file and writes train.jsonl
IndMadSplitGenerators ==
    /\ loader = "indmad"
    /\ phase = "info_ok"
    /\ IF HasIndexError(AllLines(file))
       THEN /\ phase' = "failed"
            /\ error' = "IndexError"
            /\ UNCHANGED <<all_data, gen>>
       ELSE /\ phase' = "split_ok"
            /\ all_data' = Collect(AllLines(file), 0)
            /\ gen' = "run"
            /\ error' = error
    /\ UNCHANGED <<loader, schema, cc3mvars, genvars, file, k, out>>

\* one turn of for each_data in f.iter(), under either schema
IndMadYield ==
    /\ loader = "indmad"
    /\ gen = "run"
    /\ schema \in IndMadSchemas
    /\ k < Len(all_data)
    /\ out' = Append(out, <<k, IndMadExample(schema, all_data[k + 1])>>)
    /\ k' = k + 1
    /\ UNCHANGED <<loader, schema, phase, error, cc3mvars, genvars, file, all_data, gen>>

\* the file is read through, or the schema is neither of the two
IndMadStop ==
    /\ loader = "indmad"
    /\ gen = "run"
    /\ schema \in IndMadSchemas => k = Len(all_data)
    /\ gen' = "done"
    /\ UNCHANGED <<loader, schema, phase, error, cc3mvars, genvars, file, all_data, k, out>>

NextIndMad == IndMadInfoStep \/ IndMadSplitGenerators \/ IndMadYield \/ IndMadStop

-----------------------------------------------------------------------------

Init == InitCC3M \/ InitViCon \/ InitQA \/ InitIndMad

Next == NextCC3M \/ NextViCon \/ NextQA \/ NextIndMad

Spec == Init /\ [][Next]_vars

-----------------------------------------------------------------------------
(* What the stream holds, read off the input alone *)

Range(f) == { f[i] : i \in DOMAIN f }

\* the integer that a string of digits spells
IntOf(s) == CHOOSE n \in -1..(2 * MaxLines + 10) : Str(n) = s

\* positions of the lines that carry the requested language
Wanted(s) == { i \in 1..Len(s) : s[i].kind = "json" /\ s[i].trg_lang = LANGUAGE_MAP.vie }

NoBlank(s) == \A i \in 1..Len(s) : s[i].kind = "json"

AllInTable(s) == \A i \in Wanted(s) : s[i].rec_num \in 1..Len(GccTable)

\* the position of the first line at or after c + 1 that is empty, Len + 1 if none
EndOf(s, c) ==
    IF \E i \in (c + 1)..Len(s) : s[i].kind = "blank"
    THEN CHOOSE i \in (c + 1)..Len(s) :
            /\ s[i].kind = "blank"
            /\ \A j \in (c + 1)..(i - 1) : s[j].kind = "json"
    ELSE Len(s) + 1

\* the wanted lines a pass started at cursor c reads before it ends
WantedFrom(s, c) == { i \in Wanted(s) : c < i /\ i < EndOf(s, c) }

\* the example the code is to build of line i as the record numbered n
ExampleOf(s, i, n) ==
    IF schema = "source"
    THEN [id |-> Str(n),
          image_paths |-> GccTable[s[i].rec_num].img_url,
          src_lang |-> "en",
          caption_tokenized |-> s[i].caption_tokenized,
          trg_lang |-> "vie",
          translation_tokenized |-> s[i].translation_tokenized,
          backtranslation_tokenized |-> s[i].backtranslation_tokenized]
    ELSE [id |-> Str(n),
          image_paths |-> <<GccTable[s[i].rec_num].img_url>>,
          texts |-> s[i].translation_tokenized,
          metadata |-> [context |-> "None", labels |-> "None"]]

Ended(p) == loader = "cc3m" /\ pc[p] = "done"

-----------------------------------------------------------------------------
\* C1: a pass over a stream with k lines in the requested language, all of
\* them in the side table, has yielded exactly k records when it ends, with
\* the ids "0", "1", ..., "k-1" in that order.
C1_YieldsAllK ==
    \A p \in Passes :
        (Ended(p) /\ NoBlank(stream) /\ AllInTable(stream)) =>
            /\ Len(yielded[p]) = Cardinality(Wanted(stream))
            /\ \A j \in 1..Len(yielded[p]) : yielded[p][j][2].id = Str(j - 1)

\* C2: with exactly one line in the requested language, and that line in the
\* side table, a pass yields exactly one record: id "0", the img_url of the
\* side table at the line's rec_num, and the line's translation_tokenized.
C2_OneRecordYielded ==
    \A p \in Passes :
        (Ended(p) /\ NoBlank(stream) /\ AllInTable(stream)
           /\ Cardinality(Wanted(stream)) = 1) =>
            LET i == CHOOSE i \in Wanted(stream) : TRUE IN
            /\ Len(yielded[p]) = 1
            /\ yielded[p][1][2] = ExampleOf(stream, i, 0)

\* C3: a line in another language is skipped entirely. No record yielded,
\* held in c_data or returned is built of such a line, idx counts only the
\* lines of the requested language, and the step that reads such a line
\* changes neither idx, c_data, the yielded records nor the returned value.
C3_State ==
    loader = "cc3m" =>
    \A p \in Passes :
        /\ joined[p] \subseteq Wanted(stream)
        /\ Range(emitted[p]) \subseteq joined[p]
        /\ held[p] # 0 => held[p] \in joined[p]
        /\ idx[p] = Cardinality(joined[p]) - 1
        /\ Len(emitted[p]) = Len(yielded[p])
        /\ \A j \in 1..Len(yielded[p]) :
              yielded[p][j][2] = ExampleOf(stream, emitted[p][j], j - 1)
        /\ c_data[p] # None <=> held[p] # 0
        /\ c_data[p] # None => c_data[p] = ExampleOf(stream, held[p], idx[p])

C3_Step ==
    \A p \in Passes :
        ( /\ loader = "cc3m"
          /\ pc[p] = "run"
          /\ cursor < Len(stream)
          /\ stream[cursor + 1].kind = "json"
          /\ stream[cursor + 1].trg_lang # LANGUAGE_MAP.vie ) =>
            /\ idx' = idx
            /\ c_data' = c_data
            /\ yielded' = yielded
            /\ ret' = ret
            /\ joined' = joined

C3_OtherLanguageSkipped == []C3_State /\ [][C3_Step]_vars

\* a line of another language has been read past, after a record was built
C3_Witness ==
    /\ loader = "cc3m"
    /\ pc[1] = "run"
    /\ c_data[1] # None
    /\ cursor > held[1]
    /\ stream[cursor].kind = "json"
    /\ stream[cursor].trg_lang = "th"

\* C4: a second pass over the same handle, run after the first pass ran to
\* exhaustion, yields the same sequence of (key, record) pairs.
C4_RestartIdentical ==
    (Ended(1) /\ Ended(2)) => yielded[2] = yielded[1]

C4_Witness == Ended(1) /\ Ended(2) /\ Len(yielded[2]) >= 1

\* C5: at exhaustion the cursor is back at 0 and the pass has returned, not
\* yielded, the pair (idx, c_data): the record of the last line in the
\* requested language with its identifier, or (-1, None) when there was no
\* such line, and then nothing was yielded.
C5_ReturnAtExhaustion ==
    \A p \in Passes :
        Ended(p) =>
            LET W == WantedFrom(stream, start[p]) IN
            /\ (\A q \in Passes : q > p => pc[q] = "idle") => cursor = 0
            /\ ret[p] = <<idx[p], c_data[p]>>
            /\ held[p] \notin Range(emitted[p])
            /\ IF W = {}
               THEN ret[p] = <<-1, None>> /\ yielded[p] = <<>>
               ELSE ret[p] = <<Cardinality(W) - 1,
                               ExampleOf(stream, Max(W), Cardinality(W) - 1)>>

C5_Witness == Ended(1) /\ idx[1] >= 1 /\ cursor = 0 /\ Len(stream) = MaxLines

\* C6: the yielded records are numbered "0", "1", "2", ... without a gap or
\* a repeat, and each is yielded under the key that its id spells.
C6_DenseIds ==
    loader = "cc3m" =>
    \A p \in Passes :
        \A j \in 1..Len(yielded[p]) :
            /\ yielded[p][j][1] = j - 1
            /\ yielded[p][j][2].id = Str(j - 1)
            /\ IntOf(yielded[p][j][2].id) = yielded[p][j][1]

C6_Witness == loader = "cc3m" /\ Len(yielded[1]) >= 2

\* C7: at most one record is joined and not yet emitted, no record is
\* yielded twice, and the record returned at the end was not yielded.
Pending(p) ==
    (joined[p] \cup (IF pc[p] = "suspended" THEN {local[p].pos} ELSE {}))
        \ Range(emitted[p])

C7_OnePending ==
    loader = "cc3m" =>
    \A p \in Passes :
        /\ Cardinality(Pending(p)) <= 1
        /\ \A i, j \in 1..Len(emitted[p]) : emitted[p][i] = emitted[p][j] => i = j
        /\ (pc[p] = "done" /\ held[p] # 0) => held[p] \notin Range(emitted[p])

C7_Witness ==
    /\ loader = "cc3m"
    /\ pc[1] = "suspended"
    /\ Len(emitted[1]) = 2
    /\ Cardinality(Pending(1)) = 1

-----------------------------------------------------------------------------
\* C8: for every loader and schema, the id fields of the records emitted
\* within a split are 0, 1, ..., n-1, whatever identifiers or blank lines
\* the source files hold.
C8_IdsContiguous ==
    /\ loader = "cc3m" =>
          \A p \in Passes : \A j \in 1..Len(yielded[p]) :
              yielded[p][j][2].id = Str(j - 1)
    /\ loader \in {"vicon", "qa"} =>
          \A j \in 1..Len(out) :
              "id" \in DOMAIN out[j][2] => out[j][2]["id"] = Str(j - 1)
    /\ loader = "indmad" =>
          \A j \in 1..Len(out) : out[j][2].id = j - 1

Recognised ==
    CASE loader = "cc3m" -> {"source", "seacrowd_imtext"}
      [] loader = "vicon" -> {"source", "seacrowd_pairs"}
      [] loader = "qa" -> {"source", "seacrowd_qa"}
      [] loader = "indmad" -> {"source", "seacrowd_t2t"}

C10_UnknownSchemaFails ==
    schema \notin Recognised =>
        /\ out = <<>>
        /\ \A p \in Passes : yielded[p] = <<>> /\ ret[p] = <<>> /\ pc[p] = "idle"
        /\ gen = "idle"
        /\ phase \in {"new", "failed"}
        /\ phase = "failed" => error \in {"UnboundLocalError", "ValueError"}

C10_Witness ==
    /\ loader = "indmad"
    /\ schema = "other"
    /\ phase = "failed"
    /\ error = "UnboundLocalError"
    /\ Len(AllLines(file)) = 0

-----------------------------------------------------------------------------
\* the j-th smallest element of a set of numbers
Nth(S, j) == CHOOSE i \in S : Cardinality({ x \in S : x < i }) = j - 1

\* what a pass yields when it alone reads the stream from its beginning:
\* the wanted lines before the first empty line, but the last, numbered from 0
Alone(s) ==
    LET W == WantedFrom(s, 0) IN
    [j \in 1..(Cardinality(W) - 1) |-> <<j - 1, ExampleOf(s, Nth(W, j), j - 1)>>]

IsPrefix(a, b) == Len(a) <= Len(b) /\ \A j \in 1..Len(a) : a[j] = b[j]

NoBad(s) == \A i \in 1..Len(s) : s[i].kind # "bad"

\* C11: the passes over a split share nothing but the side table: whether
\* their pulls interleave or a pass is started after another was abandoned,
\* each pass yields the sequence it yields when it runs alone on a fresh
\* stream (a prefix of it while it runs, all of it once it has ended).
C11_PassesIndependent ==
    (loader = "cc3m" /\ NoBad(stream) /\ AllInTable(stream)) =>
        \A p \in Passes :
            /\ IsPrefix(yielded[p], Alone(stream))
            /\ pc[p] = "done" => yielded[p] = Alone(stream)

-----------------------------------------------------------------------------
\* C12: _split_generators of a builder without data_dir ends in ValueError,
\* and then no stream file has been opened, no side table has been read and
\* no pass exists.
C12_NoDataDirFails ==
    (loader = "cc3m" /\ data_dir = "None") =>
        /\ opened = {}
        /\ table_read = {}
        /\ \A p \in Passes : pc[p] = "idle"
        /\ phase # "split_ok"
        /\ fetched # {} => (phase = "failed" /\ error = "ValueError")

C12_Witness ==
    /\ loader = "cc3m"
    /\ data_dir = "None"
    /\ schema = "seacrowd_imtext"
    /\ fetched = {"trans_dev", "trans_train"}
    /\ phase = "failed"
    /\ error = "ValueError"

-----------------------------------------------------------------------------
\* the labels of the attempts that raised, in the order of the attempts
RECURSIVE Raised(_)
Raised(att) ==
    IF att = <<>> THEN <<>>
    ELSE (IF Head(att).exc # "none" THEN <<Head(att).idx>> ELSE <<>>) \o Raised(Tail(att))

\* the rows of df whose caption is the line's
Matching(df, caption) == { i \in 1..Len(df) : df[i].caption = caption }

\* C13: a download that fails in fill_img_path is not raised to the caller.
\* Every matched row is tried once, in order, whether or not an earlier one
\* failed, and the list returned holds exactly the labels of the rows whose
\* download failed, each once.
C13_DownloadFailuresRecorded ==
    fill.pc \in {"loop", "raised", "returned"} =>
        /\ fill.pc # "raised"
        /\ Range(fill.selected_row) = Matching(fill.df, fill.line.caption_tokenized)
        /\ Len(fill.attempts) = fill.n
        /\ \A j \in 1..Len(fill.attempts) : fill.attempts[j].idx = fill.selected_row[j]
        /\ \A i, j \in 1..Len(fill.attempts) :
              fill.attempts[i].idx = fill.attempts[j].idx => i = j
        /\ fill.exceptions = Raised(fill.attempts)
        /\ fill.pc = "returned" => Len(fill.attempts) = Len(fill.selected_row)

\* a call has returned after a failed download that was followed by another
C13_Witness ==
    /\ fill.pc = "returned"
    /\ Len(fill.attempts) = 3
    /\ fill.attempts[1].exc = "KeyboardInterrupt"
    /\ fill.attempts[2].exc = "none"
    /\ fill.attempts[3].exc = "ConnectionError"
    /\ fill.exceptions = <<1, 3>>

-----------------------------------------------------------------------------
\* C14: once the passes over a split have ended, by return or by an error,
\* no stream file handle of the builder is open any more.
C14_HandlesReleased ==
    (loader = "cc3m" /\ \A p \in Passes : pc[p] \in {"done", "error"}) => opened = {}

-----------------------------------------------------------------------------
\* C15: a line of the requested language whose rec_num is not in the side
\* table ends the pass with KeyError at that line, before the pending record
\* is yielded: the step yields and returns nothing and leaves the cursor
\* behind the line, and the pass yields and returns nothing afterwards.
C15_State ==
    \A p \in Passes :
        pc[p] = "error" =>
            /\ ret[p] = <<>>
            /\ held[p] # 0 => held[p] \notin Range(emitted[p])
            /\ cursor # 0 \/ \E q \in Passes : q # p /\ pc[q] = "done"

C15_Step ==
    \A p \in Passes :
        /\ ( /\ pc[p] = "run"
             /\ cursor < Len(stream)
             /\ stream[cursor + 1].kind = "json"
             /\ stream[cursor + 1].trg_lang = LANGUAGE_MAP.vie
             /\ stream[cursor + 1].rec_num \notin 1..Len(GccTable) ) =>
                /\ pc'[p] = "error"
                /\ error' = "KeyError"
                /\ yielded' = yielded
                /\ ret' = ret
                /\ c_data' = c_data
                /\ cursor' = cursor + 1
        /\ pc[p] = "error" =>
                /\ pc'[p] = "error"
                /\ yielded'[p] = yielded[p]
                /\ ret'[p] = ret[p]

C15_LookupMissAborts == []C15_State /\ [][C15_Step]_vars

\* a pass has died of KeyError with a record pending and a wanted line unread
C15_Witness ==
    /\ loader = "cc3m"
    /\ pc[1] = "error"
    /\ pc[2] = "idle"
    /\ error = "KeyError"
    /\ c_data[1] # None
    /\ held[1] \notin Range(emitted[1])
    /\ cursor = 2
    /\ Len(stream) = 3
    /\ 3 \in Wanted(stream)

-----------------------------------------------------------------------------
\* the position of the first empty line after position c, Len + 1 if none
FirstBlank(s, c) ==
    LET B == { i \in (c + 1)..Len(s) : s[i].kind = "blank" } IN
    IF B = {} THEN Len(s) + 1 ELSE CHOOSE i \in B : \A j \in B : i <= j

\* C16: an empty line ends the pass wherever it stands: the step that reads
\* it puts the cursor at 0 and returns, and no line behind the first empty
\* line is read, built, yielded or returned by the pass.
C16_State ==
    loader = "cc3m" =>
    \A p \in Passes :
        /\ \A i \in joined[p] \cup Range(emitted[p]) \cup ({held[p]} \ {0}) :
              start[p] < i /\ i < FirstBlank(stream, start[p])
        /\ pc[p] \in {"run", "suspended"} => cursor < FirstBlank(stream, start[p])

C16_Step ==
    \A p \in Passes :
        ( /\ pc[p] = "run"
          /\ cursor < Len(stream)
          /\ stream[cursor + 1].kind = "blank" ) =>
            /\ pc'[p] = "done"
            /\ cursor' = 0
            /\ ret'[p] = <<idx[p], c_data[p]>>
            /\ yielded' = yielded

C16_BlankLineEndsPass == []C16_State /\ [][C16_Step]_vars

\* a pass has ended at an empty line that a wanted line follows
C16_Witness ==
    /\ Ended(1)
    /\ Len(stream) = 3
    /\ stream[2].kind = "blank"
    /\ 1 \in Wanted(stream)
    /\ 3 \in Wanted(stream)
    /\ stream[3].rec_num = 2
    /\ ret[1][1] = 0

=============================================================================
